---- MODULE Spec2Model ----
(***************************************************************************)
(* The scene-graph hub of three-rs (src/src/hub.rs): the generational node  *)
(* store, the deferred-mutation message channel, the operation dispatcher   *)
(* (Hub::process_messages) and the propagation pass (Hub::update_graph).    *)
(*                                                                         *)
(* The store is a froggy::Storage: a vector of items (data), a vector of    *)
(* reference counts (meta), a free list of recycled slots and, shared with  *)
(* every pointer, the pending reference changes (add_ref, sub_ref) and the  *)
(* epoch of every slot.  Slots are numbered from 1 here (from 0 in Rust).   *)
(* Transforms are cgmath::Decomposed values; the model draws their          *)
(* components from small integers and unit quaternions of the group         *)
(* {+-1, +-i, +-j, +-k}, on which the f32 arithmetic of the code is exact.  *)
(***************************************************************************)
EXTENDS Integers, Sequences, FiniteSets, TLC

\* ---------------------------------------------------------------- bounds
\* SpecQueue (the channel and the store): number of calls the application
\* makes in a behaviour, nodes created plus messages sent.
MaxCallsQueue == 4

\* SpecGraph (the propagation pass): number of nodes of the graphs the
\* application has built.
MaxNodesGraph == 3

\* SpecMorph (morph weights): number of SetWeights messages the application
\* sends.
MaxCallsMorph == 2

\* SpecTransform (SetTransform) and SpecDispatch (the dispatcher): number of
\* messages the application sends.
MaxCallsTransform == 2
MaxCallsDispatch == 2

\* SpecKind (the payload variant): number of messages the application sends.
MaxCallsKind == 2
MaxCallsReuse == 4
MaxCallsUid == 3
MaxCallsFacade == 5

\* ------------------------------------------------------ program constants
\* mesh::MAX_TARGETS, the number of morph-target slots of a visual node.
MAX_TARGETS == 8

\* ---------------------------------------------------------------- options
None == <<>>
Some(x) == <<x>>

\* ------------------------------------------------------------- transforms
\* cgmath: Quaternion * Quaternion (s, x, y, z).
QMul(a, b) ==
  << a[1] * b[1] - a[2] * b[2] - a[3] * b[3] - a[4] * b[4],
     a[1] * b[2] + a[2] * b[1] + a[3] * b[4] - a[4] * b[3],
     a[1] * b[3] + a[3] * b[1] + a[4] * b[2] - a[2] * b[4],
     a[1] * b[4] + a[4] * b[1] + a[2] * b[3] - a[3] * b[2] >>

Cross(u, v) ==
  << u[2] * v[3] - u[3] * v[2],
     u[3] * v[1] - u[1] * v[3],
     u[1] * v[2] - u[2] * v[1] >>

VAdd(u, v) == << u[1] + v[1], u[2] + v[2], u[3] + v[3] >>

VScale(u, k) == << u[1] * k, u[2] * k, u[3] * k >>

\* cgmath: Quaternion * Vector3 (rotate_vector).
RotateVector(q, v) ==
  LET qv == << q[2], q[3], q[4] >>
      tmp == VAdd(Cross(qv, v), VScale(v, q[1]))
  IN  VAdd(VScale(Cross(qv, tmp), 2), v)

\* Transform::one().
One == [scale |-> 1, rot |-> << 1, 0, 0, 0 >>, disp |-> << 0, 0, 0 >>]

\* parent.world_transform.concat(&item.transform): Decomposed::concat.
Concat(a, b) ==
  [scale |-> a.scale * b.scale,
   rot |-> QMul(a.rot, b.rot),
   disp |-> VAdd(RotateVector(a.rot, VScale(b.disp, a.scale)), a.disp)]


\* ------------------------------------------------------------------ state
VARIABLES
  data,               \* Storage.inner.data: the node of every slot
  meta,               \* Storage.inner.meta: the committed reference count of every slot
  free_list,          \* Storage.inner.free_list: recycled slots, as pointer data
  epoch,              \* Pending.epoch: the current generation of every slot
  add_ref,            \* Pending.add_ref: pointer clones not yet committed
  sub_ref,            \* Pending.sub_ref: pointer drops not yet committed
  queue,              \* the mpsc channel message_tx -> message_rx
  held,               \* the object::Base handles the application holds
  scene_uid_counter,  \* SCENE_UID_COUNTER
  given,              \* history: the uids handed out by SCENE_UID_COUNTER, in order
  pc,                 \* where the owning thread is in process_messages
  born,               \* history: creation number and scene uid of the node in each slot,
                      \*   and whether it was created since the last sync_pending
  created,            \* history: number of nodes.create calls so far
  sent,               \* history: number of messages sent so far
  log,                \* history: the messages received by the current drain
  at_begin,           \* history: the messages queued when the current drain began
  logged,             \* the slots update_graph reported with error! in its last pass
  fresh,              \* history: update_graph passes since a node was last written (0, 1, 2 = more)
  factory_scene_id,   \* lib.rs, Factory.scene_id of every Factory made by Renderer::new
  facade_scenes,      \* lib.rs, the Scene values: unique_id, nodes, visuals, channel
  facade_objects,     \* lib.rs, the Group and Mesh values: transform, material, scenes (links)
  proxy,              \* lib.rs, the TransformProxy or MaterialProxy alive, if any
  aborted,            \* lib.rs, the panic that ended the program, if any
  facade_calls        \* history: number of facade calls that create something

vars == << data, meta, free_list, epoch, add_ref, sub_ref, queue, held,
           scene_uid_counter, given, pc, born, created, sent, log, at_begin, logged, fresh,
           factory_scene_id, facade_scenes, facade_objects, proxy, aborted, facade_calls >>

vars_hub == << data, meta, free_list, epoch, add_ref, sub_ref, queue, held,
               scene_uid_counter, given, pc, born, created, sent, log, at_begin, logged,
               fresh >>

facade == << factory_scene_id, facade_scenes, facade_objects, proxy, aborted, facade_calls >>

store == << data, meta, free_list, epoch >>
history == << born, created, sent, log, at_begin >>

\* ------------------------------------------------------------------ nodes
\* DisplacementContribution::ZERO in all MAX_TARGETS slots of a new GpuData.
ZeroContributions ==
  [i \in 1..MAX_TARGETS |-> [position |-> 0, normal |-> 0, tangent |-> 0, weight |-> 0]]

SubEmpty == [kind |-> "Empty"]
SubScene == [kind |-> "Scene"]
SubVisual(mat) ==
  [kind |-> "Visual",
   material |-> [kind |-> mat, texel_range |-> None],
   gpu_data |-> [displacement_contributions |-> ZeroContributions],
   skeleton |-> None]

\* SubNode::Audio(AudioData): the rodio sink of the source, as the number of
\* clips queued, the pause flag and the volume.
SubAudio == [kind |-> "Audio", source |-> [clips |-> 0, paused |-> FALSE, volume |-> 1]]

\* SubNode::UiText(TextData): the section (color as linear rgb and opacity,
\* screen position, scale, bounds, text), the font and the layout.
SubUiText ==
  [kind |-> "UiText",
   section |-> [color |-> << 0, 0, 0, 1 >>, screen_position |-> << 0, 0 >>,
                scale |-> 1, bounds |-> << 0, 0 >>, text |-> ""],
   font |-> "default",
   layout |-> "default"]

\* SubNode::Light(LightData).
SubLight == [kind |-> "Light", shadow |-> None]

\* SubNode::Skeleton(SkeletonData).
SubSkeleton == [kind |-> "Skeleton"]

\* impl From<SubNode> for NodeInternal (node.rs).
NodeFromSub(sub) ==
  [parent |-> None,
   visible |-> TRUE,
   world_visible |-> FALSE,
   transform |-> One,
   world_transform |-> One,
   scene_id |-> None,
   sub_node |-> sub]

\* The strong pointer of the parent link of a node, as a slot index.
ParentPointers(node) == IF node.parent = None THEN <<>> ELSE << node.parent[1].index >>

\* The strong pointer of the skeleton a visual node is bound to (Skeleton is
\* an object handle), as a slot index.
SkeletonPointers(node) ==
  IF node.sub_node.kind = "Visual" /\ node.sub_node.skeleton /= None
  THEN << node.sub_node.skeleton[1].index >>
  ELSE <<>>

\* The strong pointers a NodeInternal owns, as slot indices: dropping the node
\* drops them.
OwnedPointers(node) == ParentPointers(node) \o SkeletonPointers(node)

\* ------------------------------------------------------------------ store
\* A slip: a weak pointer resolved by its slot alone, the generation ignored.
UpgradesIgnoringEpoch(weak) == meta[weak.index] > 0

\* WeakPointer::upgrade succeeds iff the slot's epoch is still the pointer's.
Upgrades(weak) == epoch[weak.index] = weak.epoch

\* A slip: the new slot left unreferenced, so that neither iterator nor cursor
\* visits the node.
StorageCreateUncounted(value) ==
  IF free_list /= <<>>
  THEN LET p == free_list[Len(free_list)]
           i == p.index
       IN  /\ free_list' = SubSeq(free_list, 1, Len(free_list) - 1)
           /\ data' = [data EXCEPT ![i] = value]
           /\ meta' = meta
           /\ sub_ref' = sub_ref \o OwnedPointers(data[i])
           /\ epoch' = epoch
           /\ held' = held \cup {p}
           /\ born' = [born EXCEPT ![i] = [n |-> created + 1, uid |-> value.scene_id,
                                         staged |-> TRUE]]
  ELSE LET i == Len(meta) + 1
           p == [index |-> i, epoch |-> 0]
       IN  /\ free_list' = free_list
           /\ data' = Append(data, value)
           /\ meta' = Append(meta, 0)
           /\ sub_ref' = sub_ref
           /\ epoch' = Append(epoch, 0)
           /\ held' = held \cup {p}
           /\ born' = Append(born, [n |-> created + 1, uid |-> value.scene_id,
                                  staged |-> TRUE])

\* Storage::create: reuse the last freed slot, else push a new one.
StorageCreate(value) ==
  IF free_list /= <<>>
  THEN LET p == free_list[Len(free_list)]
           i == p.index
       IN  /\ free_list' = SubSeq(free_list, 1, Len(free_list) - 1)
           /\ data' = [data EXCEPT ![i] = value]
           /\ meta' = [meta EXCEPT ![i] = 1]
           /\ sub_ref' = sub_ref \o OwnedPointers(data[i])
           /\ epoch' = epoch
           /\ held' = held \cup {p}
           /\ born' = [born EXCEPT ![i] = [n |-> created + 1, uid |-> value.scene_id,
                                         staged |-> TRUE]]
  ELSE LET i == Len(meta) + 1
           p == [index |-> i, epoch |-> 0]
       IN  /\ free_list' = free_list
           /\ data' = Append(data, value)
           /\ meta' = Append(meta, 1)
           /\ sub_ref' = sub_ref
           /\ epoch' = Append(epoch, 0)
           /\ held' = held \cup {p}
           /\ born' = Append(born, [n |-> created + 1, uid |-> value.scene_id,
                                  staged |-> TRUE])

RECURSIVE AddRefs(_, _)
AddRefs(m, refs) ==
  IF refs = <<>> THEN m
  ELSE AddRefs([m EXCEPT ![Head(refs)] = @ + 1], Tail(refs))

RECURSIVE SubRefs(_, _)
SubRefs(s, refs) ==
  IF refs = <<>> THEN s
  ELSE LET i == Head(refs)
           m == [s.meta EXCEPT ![i] = @ - 1]
       IN  IF m[i] = 0
           THEN SubRefs([meta |-> m,
                         epoch |-> [s.epoch EXCEPT ![i] = @ + 1],
                         free_list |-> Append(s.free_list,
                                              [index |-> i, epoch |-> s.epoch[i] + 1])],
                        Tail(refs))
           ELSE SubRefs([s EXCEPT !.meta = m], Tail(refs))

\* Storage::sync_pending: commit the pending clones, then the pending drops; a
\* slot whose count reaches zero gets a new epoch and joins the free list.
SyncPending ==
  SubRefs([meta |-> AddRefs(meta, add_ref), epoch |-> epoch, free_list |-> free_list],
          sub_ref)

\* The slots an iterator or cursor of the store visits: those still referenced.
Visited(i) == meta[i] > 0

\* lib.rs before Renderer::new has returned its Factory: no scene, no object.
FacadeNew ==
  /\ factory_scene_id = <<>>
  /\ facade_scenes = <<>>
  /\ facade_objects = <<>>
  /\ proxy = None
  /\ aborted = None
  /\ facade_calls = 0

\* Hub::new.
HubNew ==
  /\ data = <<>>
  /\ meta = <<>>
  /\ free_list = <<>>
  /\ epoch = <<>>
  /\ add_ref = <<>>
  /\ sub_ref = <<>>
  /\ queue = <<>>
  /\ held = {}
  /\ scene_uid_counter = 0
  /\ given = <<>>
  /\ pc = "idle"
  /\ born = <<>>
  /\ created = 0
  /\ sent = 0
  /\ log = <<>>
  /\ at_begin = {}
  /\ logged = {}
  /\ fresh = 0

Init == HubNew /\ FacadeNew

\* Hub::spawn (spawn_empty, spawn_visual).
Spawn(sub, limit) ==
  /\ pc = "idle"
  /\ created + sent < limit
  /\ StorageCreate(NodeFromSub(sub))
  /\ created' = created + 1
  /\ fresh' = 0
  /\ UNCHANGED << add_ref, queue, scene_uid_counter, given, facade, pc, sent, log, at_begin, logged >>

\* A slip: the counter read with a load, its increment lost.
FetchAddLoad(counter) == [uid |-> counter, next |-> counter]

\* SCENE_UID_COUNTER.fetch_add(1, Relaxed): one atomic read-modify-write, which
\* returns the value before the addition.
FetchAdd(counter) == [uid |-> counter, next |-> counter + 1]

\* spawn_scene of another hub of the process, on any thread: the counter is a
\* static shared by all hubs, the node goes to the other hub's store.
OtherSpawnScene(limit) ==
  /\ Len(given) - created < limit
  /\ LET f == FetchAdd(scene_uid_counter)
     IN  /\ scene_uid_counter' = f.next
         /\ given' = Append(given, f.uid)
  /\ UNCHANGED << store, add_ref, sub_ref, queue, held, pc, history, logged, fresh, facade >>

\* Hub::spawn_scene.
SpawnScene(limit) ==
  /\ pc = "idle"
  /\ created + sent < limit
  /\ LET f == FetchAdd(scene_uid_counter)
         uid == f.uid
     IN  /\ scene_uid_counter' = f.next
         /\ given' = Append(given, uid)
         /\ StorageCreate([NodeFromSub(SubScene) EXCEPT !.scene_id = Some(uid)])
  /\ created' = created + 1
  /\ fresh' = 0
  /\ UNCHANGED << add_ref, queue, pc, sent, log, at_begin, logged, facade >>


\* ------------------------------------------------------------- operations
\* Inputs of Operation::SetTransform: each component is None or Some(value).
\* Positions are mint::Point3 {x, y, z}, rotations mint::Quaternion {v, s}.
PosInputs == {None, Some([x |-> 1, y |-> 0, z |-> 0]), Some([x |-> 0, y |-> 2, z |-> 0])}
RotInputs == {None, Some([v |-> [x |-> 0, y |-> 0, z |-> 1], s |-> 0])}
ScaleInputs == {None, Some(2), Some(3)}

\* mint::Vector3::from(pos).into(): the cgmath vector of a mint point.
VectorFromMint(p) == << p.x, p.y, p.z >>

\* rot.into(): the cgmath quaternion (scalar first) of a mint quaternion.
QuaternionFromMint(q) == << q.s, q.v.x, q.v.y, q.v.z >>

\* Inputs of Operation::SetWeights.
WeightInputs == {[i \in 1..MAX_TARGETS |-> 1], [i \in 1..MAX_TARGETS |-> i]}

\* The operations an object handle can send.
SetParentOps == {[type |-> "SetParent", parent |-> q] : q \in held}

SetVisibleOps == {[type |-> "SetVisible", visible |-> b] : b \in BOOLEAN}

SetTransformOps ==
  {[type |-> "SetTransform", pos |-> p, rot |-> r, scale |-> k] :
     p \in PosInputs, r \in RotInputs, k \in ScaleInputs}

SetMaterialOps ==
  {[type |-> "SetMaterial", material |-> [kind |-> m, texel_range |-> None]] :
     m \in {"Basic", "Sprite"}}

SetTexelRangeOps == {[type |-> "SetTexelRange", base |-> << 0, 0 >>, size |-> << 1, 1 >>]}

SetWeightsOps == {[type |-> "SetWeights", weights |-> w] : w \in WeightInputs}

\* audio::Operation.
SetAudioOps ==
  {[type |-> "SetAudio", operation |-> o] :
     o \in {[kind |-> "Append", clip |-> 1], [kind |-> "Pause"], [kind |-> "Resume"],
            [kind |-> "Stop"], [kind |-> "SetVolume", volume |-> 2]}}

\* text::Operation.
SetTextOps ==
  {[type |-> "SetText", operation |-> o] :
     o \in {[kind |-> "Color", color |-> 2], [kind |-> "Font", font |-> "serif"],
            [kind |-> "Layout", layout |-> "wrap"], [kind |-> "Opacity", opacity |-> 2],
            [kind |-> "Pos", point |-> [x |-> 1, y |-> 2]],
            [kind |-> "Scale", scale |-> 2],
            [kind |-> "Size", size |-> [x |-> 3, y |-> 4]],
            [kind |-> "Text", text |-> "text"]}}

\* A Skeleton is the object handle of a node spawned by spawn_skeleton.
SetSkeletonOps ==
  {[type |-> "SetSkeleton", skeleton |-> q] :
     q \in {h \in held : data[h.index].sub_node.kind = "Skeleton"}}

SetShadowOps == {[type |-> "SetShadow", map |-> "map", proj |-> "ortho"]}

SetTargetsOps ==
  {[type |-> "SetTargets",
    targets |-> [i \in 1..MAX_TARGETS |->
                   << "Position", "Normal", "Tangent", "None" >>[(i % 4) + 1]]]}

\* A slip: the operand of an operation downgraded like the target, so that the
\* message owns no strong pointer.
OpPointersWeak(op) == <<>>

\* The strong pointers an Operation owns, as slot indices.
OpPointers(op) ==
  IF op.type = "SetParent" THEN << op.parent.index >>
  ELSE IF op.type = "SetSkeleton" THEN << op.skeleton.index >>
  ELSE <<>>

\* An object handle h sends an operation: Sender::send of (node.downgrade(),
\* operation) on the handle's clone of the channel's sending end.
\* SetParent carries a clone of the parent's pointer.  History: seq numbers
\* the messages in send order, node is the creation number of the target.
SendOp(h, op) ==
  /\ queue' = Append(queue, [target |-> h, op |-> op, seq |-> sent + 1,
                             node |-> born[h.index].n])
  /\ add_ref' = add_ref \o OpPointers(op)
  /\ sent' = sent + 1
  /\ UNCHANGED << store, sub_ref, held, scene_uid_counter, given, facade, pc, born, created,
                  log, at_begin, logged, fresh >>

\* The application sends one of the operations ops through a handle it holds.
Send(ops, limit, at) ==
  /\ pc \in at
  /\ created + sent < limit
  /\ \E h \in held : \E op \in ops : SendOp(h, op)

\* The application drops the object handle h: Pointer::drop.
Drop(h) ==
  /\ held' = held \ {h}
  /\ sub_ref' = Append(sub_ref, h.index)
  /\ UNCHANGED << store, add_ref, queue, scene_uid_counter, given, facade, pc, history, logged, fresh >>

\* The application drops one of the handles it holds.
DropHandle(at) ==
  /\ pc \in at
  /\ \E h \in held : Drop(h)

\* set_weights: the weight of every morph slot, the other coefficients kept.
SetWeightsOf(node, weights) ==
  [node EXCEPT !.sub_node.gpu_data.displacement_contributions =
     [i \in 1..MAX_TARGETS |-> [@[i] EXCEPT !.weight = weights[i]]]]

\* A slip: the `continue` after the direct application left out, so that a
\* visual target also fans out to its children.
ApplySetWeightsNoContinue(d, ptr, weights) ==
  LET d1 == IF d[ptr.index].sub_node.kind = "Visual"
            THEN [d EXCEPT ![ptr.index] = SetWeightsOf(@, weights)]
            ELSE d
  IN  [i \in DOMAIN d1 |->
         IF Visited(i) /\ d1[i].parent = Some(ptr) /\ d1[i].sub_node.kind = "Visual"
         THEN SetWeightsOf(d1[i], weights)
         ELSE d1[i]]

\* Operation::SetWeights: directly on a visual target, else on every visited
\* visual node whose parent is the target.
ApplySetWeights(d, ptr, weights) ==
  IF d[ptr.index].sub_node.kind = "Visual"
  THEN [d EXCEPT ![ptr.index] = SetWeightsOf(@, weights)]
  ELSE [i \in DOMAIN d |->
          IF Visited(i) /\ d[i].parent = Some(ptr) /\ d[i].sub_node.kind = "Visual"
          THEN SetWeightsOf(d[i], weights)
          ELSE d[i]]

\* The outcome of an arm of the match that writes the nodes d and neither
\* drops a pointer nor panics.
Applied(d) == [data |-> d, dropped |-> <<>>, panic |-> FALSE]

\* A slip: a component passed as None reset to the identity's.
ApplySetTransformWhole(d, ptr, pos, rot, scale) ==
  [d EXCEPT ![ptr.index].transform =
     [disp |-> IF pos /= None THEN VectorFromMint(pos[1]) ELSE One.disp,
      rot |-> IF rot /= None THEN QuaternionFromMint(rot[1]) ELSE One.rot,
      scale |-> IF scale /= None THEN scale[1] ELSE One.scale]]

\* A slip: the world transform written along with the local one.
ApplySetTransformWorld(d, ptr, pos, rot, scale) ==
  LET t == [disp |-> IF pos /= None THEN VectorFromMint(pos[1])
                     ELSE d[ptr.index].transform.disp,
            rot |-> IF rot /= None THEN QuaternionFromMint(rot[1])
                    ELSE d[ptr.index].transform.rot,
            scale |-> IF scale /= None THEN scale[1]
                      ELSE d[ptr.index].transform.scale]
  IN  [d EXCEPT ![ptr.index].transform = t, ![ptr.index].world_transform = t]

\* Operation::SetTransform: each component written if it is Some.
ApplySetTransform(d, ptr, pos, rot, scale) ==
  [d EXCEPT ![ptr.index].transform =
     [disp |-> IF pos /= None THEN VectorFromMint(pos[1]) ELSE @.disp,
      rot |-> IF rot /= None THEN QuaternionFromMint(rot[1]) ELSE @.rot,
      scale |-> IF scale /= None THEN scale[1] ELSE @.scale]]

\* A slip: the mismatch arm of SetTexelRange copied, a material sent to a
\* node that is not visual panics.
ApplySetMaterialStrict(d, ptr, material) ==
  IF d[ptr.index].sub_node.kind = "Visual"
  THEN Applied([d EXCEPT ![ptr.index].sub_node.material = material])
  ELSE [Applied(d) EXCEPT !.panic = TRUE]

\* A slip: a material sent to a node that is not visual makes it visual.
ApplySetMaterialReplacing(d, ptr, material) ==
  IF d[ptr.index].sub_node.kind = "Visual"
  THEN Applied([d EXCEPT ![ptr.index].sub_node.material = material])
  ELSE Applied([d EXCEPT ![ptr.index].sub_node =
                  [SubVisual(material.kind) EXCEPT !.material = material]])

\* Operation::SetMaterial.
ApplySetMaterial(d, ptr, material) ==
  IF d[ptr.index].sub_node.kind = "Visual"
  THEN Applied([d EXCEPT ![ptr.index].sub_node.material = material])
  ELSE Applied(d)

\* A slip: the `if let` left out, any target that is not a sprite panics.
ApplySetTexelRangeAnyKind(d, ptr, base, size) ==
  IF d[ptr.index].sub_node.kind = "Visual"
     /\ d[ptr.index].sub_node.material.kind = "Sprite"
  THEN Applied([d EXCEPT ![ptr.index].sub_node.material.texel_range =
                  Some(<< base, size >>)])
  ELSE [Applied(d) EXCEPT !.panic = TRUE]

\* Operation::SetTexelRange: on a visual node, the texel range of a sprite
\* material is set and any other material panics.
ApplySetTexelRange(d, ptr, base, size) ==
  IF d[ptr.index].sub_node.kind = "Visual"
  THEN IF d[ptr.index].sub_node.material.kind = "Sprite"
       THEN Applied([d EXCEPT ![ptr.index].sub_node.material.texel_range =
                       Some(<< base, size >>)])
       ELSE [Applied(d) EXCEPT !.panic = TRUE]
  ELSE Applied(d)

\* Hub::process_audio, on the sink of the source.
ProcessAudio(operation, source) ==
  CASE operation.kind = "Append" -> [source EXCEPT !.clips = @ + 1]
    [] operation.kind = "Pause" -> [source EXCEPT !.paused = TRUE]
    [] operation.kind = "Resume" -> [source EXCEPT !.paused = FALSE]
    [] operation.kind = "Stop" -> [source EXCEPT !.clips = 0]
    [] operation.kind = "SetVolume" -> [source EXCEPT !.volume = operation.volume]

\* Operation::SetAudio.
ApplySetAudio(d, ptr, operation) ==
  IF d[ptr.index].sub_node.kind = "Audio"
  THEN Applied([d EXCEPT ![ptr.index].sub_node.source = ProcessAudio(operation, @)])
  ELSE Applied(d)

\* color::to_linear_rgb: the red, green and blue bytes of 0xRRGGBB (the
\* linearisation of each channel, a monotone map, is left to the channel).
ToLinearRgb(color) ==
  << (color \div 65536) % 256, (color \div 256) % 256, color % 256 >>

\* Hub::process_text.
ProcessText(operation, text_data) ==
  CASE operation.kind = "Color" ->
         LET rgb == ToLinearRgb(operation.color)
         IN  [text_data EXCEPT !.section.color = << rgb[1], rgb[2], rgb[3], 0 >>]
    [] operation.kind = "Font" -> [text_data EXCEPT !.font = operation.font]
    [] operation.kind = "Layout" -> [text_data EXCEPT !.layout = operation.layout]
    [] operation.kind = "Opacity" ->
         [text_data EXCEPT !.section.color[4] = operation.opacity]
    [] operation.kind = "Pos" ->
         [text_data EXCEPT !.section.screen_position =
            << operation.point.x, operation.point.y >>]
    [] operation.kind = "Scale" -> [text_data EXCEPT !.section.scale = operation.scale]
    [] operation.kind = "Size" ->
         [text_data EXCEPT !.section.bounds = << operation.size.x, operation.size.y >>]
    [] operation.kind = "Text" -> [text_data EXCEPT !.section.text = operation.text]

\* Operation::SetText.
ApplySetText(d, ptr, operation) ==
  IF d[ptr.index].sub_node.kind = "UiText"
  THEN Applied([d EXCEPT ![ptr.index].sub_node = ProcessText(operation, @)])
  ELSE Applied(d)

\* Operation::SetSkeleton: a visual node takes the skeleton and drops the one
\* it had; any other node leaves the skeleton of the message to be dropped.
ApplySetSkeleton(d, ptr, skeleton) ==
  IF d[ptr.index].sub_node.kind = "Visual"
  THEN [Applied([d EXCEPT ![ptr.index].sub_node.skeleton = Some(skeleton)])
          EXCEPT !.dropped = SkeletonPointers(d[ptr.index])]
  ELSE [Applied(d) EXCEPT !.dropped = << skeleton.index >>]

\* Operation::SetShadow.
ApplySetShadow(d, ptr, map, proj) ==
  IF d[ptr.index].sub_node.kind = "Light"
  THEN Applied([d EXCEPT ![ptr.index].sub_node.shadow = Some(<< map, proj >>)])
  ELSE Applied(d)

\* The position, normal and tangent coefficients of a morph target.
TargetCoefficients(target) ==
  CASE target = "Position" -> [position |-> 1, normal |-> 0, tangent |-> 0]
    [] target = "Normal" -> [position |-> 0, normal |-> 1, tangent |-> 0]
    [] target = "Tangent" -> [position |-> 0, normal |-> 0, tangent |-> 1]
    [] target = "None" -> [position |-> 0, normal |-> 0, tangent |-> 0]

\* Operation::SetTargets.
ApplySetTargets(d, ptr, targets) ==
  IF d[ptr.index].sub_node.kind = "Visual"
  THEN LET old == d[ptr.index].sub_node.gpu_data.displacement_contributions
       IN  Applied([d EXCEPT ![ptr.index].sub_node.gpu_data.displacement_contributions =
                      [i \in 1..MAX_TARGETS |->
                         [position |-> TargetCoefficients(targets[i]).position,
                          normal |-> TargetCoefficients(targets[i]).normal,
                          tangent |-> TargetCoefficients(targets[i]).tangent,
                          weight |-> old[i].weight]]])
  ELSE Applied(d)

\* One arm of the match in process_messages, on the upgraded pointer ptr:
\* the new nodes, the pointers dropped by the arm, and whether it panics.
ApplyOp(d, ptr, op) ==
  CASE op.type = "SetAudio" -> ApplySetAudio(d, ptr, op.operation)
    [] op.type = "SetParent" ->
         [Applied([d EXCEPT ![ptr.index].parent = Some(op.parent)])
            EXCEPT !.dropped = ParentPointers(d[ptr.index])]
    [] op.type = "SetVisible" ->
         Applied([d EXCEPT ![ptr.index].visible = op.visible])
    [] op.type = "SetTransform" ->
         Applied(ApplySetTransform(d, ptr, op.pos, op.rot, op.scale))
    [] op.type = "SetMaterial" -> ApplySetMaterial(d, ptr, op.material)
    [] op.type = "SetTexelRange" -> ApplySetTexelRange(d, ptr, op.base, op.size)
    [] op.type = "SetText" -> ApplySetText(d, ptr, op.operation)
    [] op.type = "SetSkeleton" -> ApplySetSkeleton(d, ptr, op.skeleton)
    [] op.type = "SetShadow" -> ApplySetShadow(d, ptr, op.map, op.proj)
    [] op.type = "SetTargets" -> ApplySetTargets(d, ptr, op.targets)
    [] op.type = "SetWeights" -> Applied(ApplySetWeights(d, ptr, op.weights))

\* A slip: the receiver takes the newest message instead of the oldest.
RecvLast(q) == [msg |-> q[Len(q)], rest |-> SubSeq(q, 1, Len(q) - 1)]

\* message_rx.try_recv(): the oldest message of the channel.
TryRecv(q) == [msg |-> Head(q), rest |-> Tail(q)]

\* A slip: `if let` for `while let`, the drain stopping after one message.
AfterMessageStop == "sync"

\* After a message the `while let` loop calls try_recv again.
AfterMessage == "loop"

\* A slip: `return` for `continue`, a dead target ending the call at once.
AfterDeadReturn == "idle"

\* A message whose target is dead: `None => continue`, the next try_recv.
AfterDead == AfterMessage

\* process_messages is entered: the owning thread takes the hub.
Begin ==
  /\ pc = "idle"
  /\ pc' = "loop"
  /\ at_begin' = {queue[k].seq : k \in 1..Len(queue)}
  /\ log' = <<>>
  /\ UNCHANGED << store, add_ref, sub_ref, queue, held, scene_uid_counter, given, facade,
                  born, created, sent, logged, fresh >>

\* One turn of the loop: a message is received, its weak pointer upgraded and
\* its operation applied; a message whose pointer is dead is dropped.
Recv ==
  /\ pc = "loop"
  /\ queue /= <<>>
  /\ LET r == TryRecv(queue)
         msg == r.msg
     IN  /\ queue' = r.rest
         /\ IF ~Upgrades(msg.target)
            THEN /\ data' = data
                 /\ add_ref' = add_ref
                 /\ sub_ref' = sub_ref \o OpPointers(msg.op)
                 /\ pc' = AfterDead
                 /\ log' = Append(log, [msg |-> msg, alive |-> FALSE])
                 /\ fresh' = fresh
            ELSE LET a == ApplyOp(data, msg.target, msg.op)
                 IN  /\ data' = a.data
                     /\ add_ref' = Append(add_ref, msg.target.index)
                     /\ sub_ref' = (sub_ref \o a.dropped) \o << msg.target.index >>
                     /\ pc' = IF a.panic THEN "panicked" ELSE AfterMessage
                     /\ log' = Append(log, [msg |-> msg, alive |-> TRUE])
                     /\ fresh' = 0
  /\ UNCHANGED << meta, free_list, epoch, held, scene_uid_counter, given, facade, born, created,
                  sent, at_begin, logged >>

\* try_recv finds the channel empty: the loop ends.
RecvEmpty ==
  /\ pc = "loop"
  /\ queue = <<>>
  /\ pc' = "sync"
  /\ UNCHANGED << store, add_ref, sub_ref, queue, held, scene_uid_counter, given, facade,
                  history, logged, fresh >>

\* self.nodes.sync_pending(), and process_messages returns.
Sync ==
  /\ pc = "sync"
  /\ LET s == SyncPending
     IN  /\ meta' = s.meta
         /\ epoch' = s.epoch
         /\ free_list' = s.free_list
  /\ add_ref' = <<>>
  /\ sub_ref' = <<>>
  /\ pc' = "idle"
  /\ log' = <<>>
  /\ at_begin' = {}
  /\ born' = [i \in DOMAIN born |-> [born[i] EXCEPT !.staged = FALSE]]
  /\ UNCHANGED << data, queue, held, scene_uid_counter, given, facade, created, sent,
                  logged, fresh >>


\* ------------------------------------------------------------ propagation
\* A slip: the parent looked up in the whole storage, not in the slots before
\* the cursor.
LeftGetWhole(d, i, ptr) == Some(d[ptr.index])

\* CursorSlice::get on the left slice of the cursor at slot i: the items of
\* the slots before i, found by the pointer's index.
LeftGet(d, i, ptr) == IF ptr.index < i THEN Some(d[ptr.index]) ELSE None

\* A slip: the world transform composed with the item's world transform
\* instead of its local one.
UpdateItemFromWorld(d, i) ==
  LET item == d[i]
  IN  IF ~item.visible
      THEN [item |-> [item EXCEPT !.world_visible = FALSE], error |-> FALSE]
      ELSE IF item.parent /= None
           THEN LET parent == LeftGet(d, i, item.parent[1])
                IN  IF parent /= None
                    THEN [item |-> [item EXCEPT
                                      !.world_visible = parent[1].world_visible,
                                      !.scene_id = parent[1].scene_id,
                                      !.world_transform =
                                         Concat(parent[1].world_transform,
                                                item.world_transform)],
                          error |-> FALSE]
                    ELSE [item |-> [item EXCEPT !.world_visible = FALSE,
                                                !.world_transform = item.transform],
                          error |-> TRUE]
           ELSE [item |-> [item EXCEPT !.world_visible = TRUE,
                                       !.world_transform = item.transform],
                 error |-> FALSE]

\* A slip: the local transform on the left of the parent's world transform.
UpdateItemChildThenParent(d, i) ==
  LET item == d[i]
  IN  IF ~item.visible
      THEN [item |-> [item EXCEPT !.world_visible = FALSE], error |-> FALSE]
      ELSE IF item.parent /= None
           THEN LET parent == LeftGet(d, i, item.parent[1])
                IN  IF parent /= None
                    THEN [item |-> [item EXCEPT
                                      !.world_visible = parent[1].world_visible,
                                      !.scene_id = parent[1].scene_id,
                                      !.world_transform =
                                         Concat(item.transform,
                                                parent[1].world_transform)],
                          error |-> FALSE]
                    ELSE [item |-> [item EXCEPT !.world_visible = FALSE,
                                                !.world_transform = item.transform],
                          error |-> TRUE]
           ELSE [item |-> [item EXCEPT !.world_visible = TRUE,
                                       !.world_transform = item.transform],
                 error |-> FALSE]

\* A slip: the visibility of the parent not inherited.
UpdateItemOwnVisibility(d, i) ==
  LET item == d[i]
  IN  IF ~item.visible
      THEN [item |-> [item EXCEPT !.world_visible = FALSE], error |-> FALSE]
      ELSE IF item.parent /= None
           THEN LET parent == LeftGet(d, i, item.parent[1])
                IN  IF parent /= None
                    THEN [item |-> [item EXCEPT
                                      !.world_visible = TRUE,
                                      !.scene_id = parent[1].scene_id,
                                      !.world_transform =
                                         Concat(parent[1].world_transform,
                                                item.transform)],
                          error |-> FALSE]
                    ELSE [item |-> [item EXCEPT !.world_visible = FALSE,
                                                !.world_transform = item.transform],
                          error |-> TRUE]
           ELSE [item |-> [item EXCEPT !.world_visible = TRUE,
                                       !.world_transform = item.transform],
                 error |-> FALSE]

\* A slip: the scene of the parent not inherited.
UpdateItemOwnScene(d, i) ==
  LET item == d[i]
  IN  IF ~item.visible
      THEN [item |-> [item EXCEPT !.world_visible = FALSE], error |-> FALSE]
      ELSE IF item.parent /= None
           THEN LET parent == LeftGet(d, i, item.parent[1])
                IN  IF parent /= None
                    THEN [item |-> [item EXCEPT
                                      !.world_visible = parent[1].world_visible,
                                      !.world_transform =
                                         Concat(parent[1].world_transform,
                                                item.transform)],
                          error |-> FALSE]
                    ELSE [item |-> [item EXCEPT !.world_visible = FALSE,
                                                !.world_transform = item.transform],
                          error |-> TRUE]
           ELSE [item |-> [item EXCEPT !.world_visible = TRUE,
                                       !.world_transform = item.transform],
                 error |-> FALSE]

\* A slip: an unresolved parent treated like no parent (visible root, no error!).
UpdateItemUnresolvedAsRoot(d, i) ==
  LET item == d[i]
  IN  IF ~item.visible
      THEN [item |-> [item EXCEPT !.world_visible = FALSE], error |-> FALSE]
      ELSE IF item.parent /= None /\ LeftGet(d, i, item.parent[1]) /= None
           THEN LET parent == LeftGet(d, i, item.parent[1])
                IN  [item |-> [item EXCEPT
                                 !.world_visible = parent[1].world_visible,
                                 !.scene_id = parent[1].scene_id,
                                 !.world_transform =
                                    Concat(parent[1].world_transform, item.transform)],
                     error |-> FALSE]
           ELSE [item |-> [item EXCEPT !.world_visible = TRUE,
                                       !.world_transform = item.transform],
                 error |-> FALSE]

\* A slip: the `continue` of the invisible case left out, the transform and
\* the affiliation derived all the same.
UpdateItemInvisibleDerives(d, i) ==
  LET item == d[i]
      derived ==
        IF item.parent /= None
        THEN LET parent == LeftGet(d, i, item.parent[1])
             IN  IF parent /= None
                 THEN [item |-> [item EXCEPT
                                   !.world_visible = parent[1].world_visible,
                                   !.scene_id = parent[1].scene_id,
                                   !.world_transform =
                                      Concat(parent[1].world_transform,
                                             item.transform)],
                       error |-> FALSE]
                 ELSE [item |-> [item EXCEPT !.world_visible = FALSE,
                                             !.world_transform = item.transform],
                       error |-> TRUE]
        ELSE [item |-> [item EXCEPT !.world_visible = TRUE,
                                    !.world_transform = item.transform],
              error |-> FALSE]
  IN  IF ~item.visible
      THEN [derived EXCEPT !.item.world_visible = FALSE]
      ELSE derived

\* The body of the loop of update_graph for the item of slot i, the slots
\* before i already updated in d: the new item, and whether error! is called.
UpdateItem(d, i) ==
  LET item == d[i]
  IN  IF ~item.visible
      THEN [item |-> [item EXCEPT !.world_visible = FALSE], error |-> FALSE]
      ELSE IF item.parent /= None
           THEN LET parent == LeftGet(d, i, item.parent[1])
                IN  IF parent /= None
                    THEN [item |-> [item EXCEPT
                                      !.world_visible = parent[1].world_visible,
                                      !.scene_id = parent[1].scene_id,
                                      !.world_transform =
                                         Concat(parent[1].world_transform,
                                                item.transform)],
                          error |-> FALSE]
                    ELSE [item |-> [item EXCEPT !.world_visible = FALSE,
                                                !.scene_id = item.scene_id,
                                                !.world_transform = item.transform],
                          error |-> TRUE]
           ELSE [item |-> [item EXCEPT !.world_visible = TRUE,
                                       !.scene_id = item.scene_id,
                                       !.world_transform = item.transform],
                 error |-> FALSE]

\* The cursor of update_graph from slot i on: slots no longer referenced are
\* skipped, every other item is updated in place, in slot order.
RECURSIVE UpdateFrom(_, _)
UpdateFrom(s, i) ==
  IF i > Len(s.data) THEN s
  ELSE IF ~Visited(i) THEN UpdateFrom(s, i + 1)
  ELSE LET u == UpdateItem(s.data, i)
       IN  UpdateFrom([data |-> [s.data EXCEPT ![i] = u.item],
                       errors |-> IF u.error THEN s.errors \cup {i} ELSE s.errors],
                      i + 1)

\* Hub::update_graph.
UpdateGraph ==
  /\ pc = "idle"
  /\ LET s == UpdateFrom([data |-> data, errors |-> {}], 1)
     IN  /\ data' = s.data
         /\ logged' = s.errors
  /\ fresh' = IF fresh = 0 THEN 1 ELSE 2
  /\ UNCHANGED << meta, free_list, epoch, add_ref, sub_ref, queue, held,
                  scene_uid_counter, given, facade, pc, history >>

\* ---------------------------------------------------------- specification
\* The application threads act at any point of the owning thread's drain ...
Anytime == {"idle", "loop", "sync"}
\* ... or, where the drain's interleavings are not the subject, between the
\* owning thread's calls.
Between == {"idle"}

\* The channel and the store: nodes are created, written through messages and
\* destroyed while the owning thread drains.
QueueSpawn == Spawn(SubVisual("Basic"), MaxCallsQueue)
QueueSend ==
  Send(SetParentOps \cup SetVisibleOps \cup SetTexelRangeOps, MaxCallsQueue, Anytime)
QueueDrop == DropHandle(Anytime)

NextQueue ==
  \/ QueueSpawn
  \/ QueueSend
  \/ QueueDrop
  \/ Begin
  \/ Recv
  \/ RecvEmpty
  \/ Sync

SpecQueue == Init /\ [][NextQueue]_vars

\* The store after the application has spawned n nodes on a new hub, sent
\* them SetParent, SetVisible and SetTransform messages and the owning thread
\* has run process_messages once: slot i holds the i-th node created, with any
\* parent among the n nodes (itself and later nodes included), every handle is
\* still held, and no pass has written the derived fields yet.
Built(n, cfg) ==
  LET scenes(i) == Cardinality({j \in 1..(i - 1) : cfg[j].sub.kind = "Scene"})
      ptr(j) == [index |-> j, epoch |-> 0]
  IN  /\ data = [i \in 1..n |->
                   [NodeFromSub(cfg[i].sub) EXCEPT
                      !.parent = IF cfg[i].parent = 0 THEN None
                                 ELSE Some(ptr(cfg[i].parent)),
                      !.visible = cfg[i].visible,
                      !.transform = cfg[i].transform,
                      !.scene_id = IF cfg[i].sub.kind = "Scene"
                                   THEN Some(scenes(i)) ELSE None]]
      /\ meta = [i \in 1..n |-> 1 + Cardinality({j \in 1..n : cfg[j].parent = i})]
      /\ free_list = <<>>
      /\ epoch = [i \in 1..n |-> 0]
      /\ add_ref = <<>>
      /\ sub_ref = <<>>
      /\ queue = <<>>
      /\ held = {ptr(j) : j \in 1..n}
      /\ scene_uid_counter = scenes(n + 1)
      /\ given = [k \in 1..scenes(n + 1) |-> k - 1]
      /\ pc = "idle"
      /\ born = [i \in 1..n |->
                   [n |-> i,
                    uid |-> IF cfg[i].sub.kind = "Scene" THEN Some(scenes(i)) ELSE None,
                    staged |-> FALSE]]
      /\ created = n
      /\ sent = 0
      /\ log = <<>>
      /\ at_begin = {}
      /\ logged = {}
      /\ fresh = 0
      /\ FacadeNew

\* Local transforms set by SetTransform messages: a translation, a scale.
Translate == [One EXCEPT !.disp = << 1, 0, 0 >>]
Scale2 == [One EXCEPT !.scale = 2]

\* The propagation pass: the owning thread runs update_graph, again and again,
\* on any graph the application has built of visible groups with either
\* transform, or of groups and scenes, visible or not, with a translation.
InitGraph ==
  \E n \in 1..MaxNodesGraph :
    \E cfg \in [1..n -> [sub : {SubEmpty},
                         parent : 0..n,
                         visible : {TRUE},
                         transform : {Translate, Scale2}]]
               \cup
               [1..n -> [sub : {SubEmpty, SubScene},
                         parent : 0..n,
                         visible : BOOLEAN,
                         transform : {Translate}]] :
      Built(n, cfg)

NextGraph == UpdateGraph

SpecGraph == InitGraph /\ [][NextGraph]_vars

\* Morph weights: the application has built a node with two children and a
\* node with one child, each node visual or with no visual payload; it sends SetWeights messages between the drains of the owning
\* thread.
InitMorph ==
  LET parents == << 0, 1, 1, 0, 4 >>
  IN  \E kinds \in [DOMAIN parents -> {SubEmpty, SubVisual("Basic")}] :
        Built(Len(parents),
              [i \in DOMAIN parents |->
                 [sub |-> kinds[i], parent |-> parents[i],
                  visible |-> TRUE, transform |-> One]])

MorphSend == Send(SetWeightsOps, created + MaxCallsMorph, Between)

NextMorph ==
  \/ MorphSend
  \/ Begin
  \/ Recv
  \/ RecvEmpty
  \/ Sync

SpecMorph == InitMorph /\ [][NextMorph]_vars

\* End to end: on a hub where two nodes were created first, the application
\* creates a scene S, a group G and a mesh M, parents G to S and M to G and
\* translates M, in this order; it drops the handles of the first two nodes
\* when it likes.  The owning thread runs update cycles before S is created
\* and after the last message is sent.
Step == created + sent

SceneCreate ==
  \/ Step \in {0, 1, 3} /\ Spawn(SubEmpty, Step + 1)
  \/ Step = 2 /\ SpawnScene(Step + 1)
  \/ Step = 5 /\ Spawn(SubVisual("Basic"), Step + 1)

\* The handle of the n-th node created.
HandleOf(n) == CHOOSE h \in held : born[h.index].n = n

SceneSend ==
  /\ pc = "idle"
  /\ \/ Step = 4 /\ SendOp(HandleOf(4), [type |-> "SetParent", parent |-> HandleOf(3)])
     \/ Step = 6 /\ SendOp(HandleOf(5), [type |-> "SetParent", parent |-> HandleOf(4)])
     \/ Step = 7 /\ SendOp(HandleOf(5), [type |-> "SetTransform",
                                         pos |-> Some([x |-> 1, y |-> 0, z |-> 0]),
                                         rot |-> None, scale |-> None])

SceneDrop == \E h \in held : born[h.index].n <= 2 /\ Drop(h)

SceneBegin == (Step <= 2 \/ Step = 8) /\ Begin

NextScene ==
  \/ SceneCreate
  \/ SceneSend
  \/ SceneDrop
  \/ SceneBegin
  \/ Recv
  \/ RecvEmpty
  \/ Sync
  \/ UpdateGraph

SpecScene == Init /\ [][NextScene]_vars

\* Slot reuse: from an empty hub the application creates groups, attaches a node to a node created before it, drops handles, and the owning
\* thread drains and runs the propagation pass, all between each other.
ReuseSpawn == Spawn(SubEmpty, MaxCallsReuse)
ReuseSend ==
  /\ pc \in Between
  /\ created + sent < MaxCallsReuse
  /\ \E h \in held : \E q \in held :
       /\ born[q.index].n < born[h.index].n
       /\ SendOp(h, [type |-> "SetParent", parent |-> q])
ReuseDrop == DropHandle(Between)

NextReuse ==
  \/ ReuseSpawn
  \/ ReuseSend
  \/ ReuseDrop
  \/ Begin
  \/ Recv
  \/ RecvEmpty
  \/ Sync
  \/ UpdateGraph

SpecReuse == Init /\ [][NextReuse]_vars

\* Scene identities: this hub and another hub of the process create scenes,
\* this hub's handles are dropped and its owning thread commits the drops.
UidSpawnScene == SpawnScene(MaxCallsUid)
UidOtherSpawnScene == OtherSpawnScene(MaxCallsUid)
UidDrop == DropHandle(Anytime)

NextUid ==
  \/ UidSpawnScene
  \/ UidOtherSpawnScene
  \/ UidDrop
  \/ Begin
  \/ RecvEmpty
  \/ Sync

SpecUid == Init /\ [][NextUid]_vars

\* SetTransform: the application has built a group with some transform and a
\* second node; it sends SetTransform messages to the group between the
\* drains of the owning thread.
InitTransform ==
  \E t \in {One, Translate, Scale2} :
    Built(2, [i \in 1..2 |->
                [sub |-> IF i = 1 THEN SubEmpty ELSE SubVisual("Basic"),
                 parent |-> 0, visible |-> TRUE,
                 transform |-> IF i = 1 THEN t ELSE One]])

TransformSend ==
  /\ pc \in Between
  /\ sent < MaxCallsTransform
  /\ \E op \in SetTransformOps : SendOp(HandleOf(1), op)

NextTransform ==
  \/ TransformSend
  \/ Begin
  \/ Recv
  \/ RecvEmpty
  \/ Sync

SpecTransform == InitTransform /\ [][NextTransform]_vars

\* The dispatcher: the application has built a node of any payload and a
\* skeleton; it sends both an operation of each variant between the drains
\* of the owning thread.
InitDispatch ==
  \E sub \in {SubEmpty, SubAudio, SubUiText, SubVisual("Basic"), SubVisual("Sprite"),
               SubLight, SubScene, SubSkeleton} :
    Built(2, [i \in 1..2 |->
                [sub |-> IF i = 1 THEN sub ELSE SubSkeleton,
                 parent |-> 0, visible |-> TRUE, transform |-> One]])

DispatchOps ==
  {op \in SetAudioOps : op.operation.kind = "SetVolume"}
  \cup {op \in SetParentOps : op.parent.index = 2}
  \cup {op \in SetVisibleOps : ~op.visible}
  \cup {op \in SetTransformOps : op.pos /= None /\ op.rot = None /\ op.scale = Some(2)}
  \cup SetMaterialOps
  \cup SetTexelRangeOps
  \cup {op \in SetTextOps : op.operation.kind \in {"Color", "Opacity"}}
  \cup SetSkeletonOps
  \cup SetShadowOps
  \cup SetTargetsOps
  \cup {op \in SetWeightsOps : op.weights[2] = 2}

DispatchSend == Send(DispatchOps, created + MaxCallsDispatch, Between)

NextDispatch ==
  \/ DispatchSend
  \/ Begin
  \/ Recv
  \/ RecvEmpty
  \/ Sync

SpecDispatch == InitDispatch /\ [][NextDispatch]_vars

\* The payload variant: the application has built a node of any payload and
\* a skeleton; it sends the node an operation of each variant between the
\* drains and the propagation passes of the owning thread.
KindSend ==
  /\ pc \in Between
  /\ sent < MaxCallsKind
  /\ \E op \in DispatchOps : SendOp(HandleOf(1), op)

NextKind ==
  \/ KindSend
  \/ Begin
  \/ Recv
  \/ RecvEmpty
  \/ Sync
  \/ UpdateGraph

SpecKind == InitDispatch /\ [][NextKind]_vars

\* ------------------------------------------------- the library-root facade
\* lib.rs: Material values.
LineBasic == [kind |-> "LineBasic", color |-> 1]
MeshBasic == [kind |-> "MeshBasic", color |-> 2]
MaterialInputs == {LineBasic, MeshBasic}
TransformInputs == {One, Translate, Scale2}

\* Object::new and VisualObject::new, as Factory::group and Factory::mesh
\* wrap them.
FacadeGroup == [kind |-> "Group", transform |-> One, material |-> None, scenes |-> <<>>]
FacadeMesh(mat) == [kind |-> "Mesh", transform |-> One, material |-> Some(mat), scenes |-> <<>>]

\* The links of an object to the scene of the given id.
LinksTo(object, id) == {k \in DOMAIN object.scenes : object.scenes[k].id = id}

\* Iterator::find: the first link to the scene.
FindLink(object, id) == object.scenes[CHOOSE k \in LinksTo(object, id) :
                                         \A m \in LinksTo(object, id) : k <= m]

\* Storage::create on a storage that is never synchronised: a new last slot.
FacadeCreate(items, value) == Append(items, [value EXCEPT !.epoch = 0])

\* WeakPointer::upgrade on the items of a storage.
FacadeUpgrades(items, weak) ==
  weak.index \in DOMAIN items /\ items[weak.index].epoch = weak.epoch

\* Pointer::downgrade.
Downgrade(items, index) == [index |-> index, epoch |-> items[index].epoch]

\* Scene::make_node: the node of the group in this scene becomes the parent;
\* `expect` panics when the group is not in the scene.
MakeNode(scene, transform, group) ==
  IF group /= None /\ LinksTo(group[1], scene.unique_id) = {}
  THEN [panic |-> TRUE, nodes |-> scene.nodes]
  ELSE [panic |-> FALSE,
        nodes |-> FacadeCreate(scene.nodes,
                    [local |-> transform, world |-> One, epoch |-> 0,
                     parent |-> IF group = None THEN None
                                ELSE Some(FindLink(group[1], scene.unique_id).node)])]

\* Renderer::new: a window with its renderer and a Factory of its own.
RendererNew ==
  /\ aborted = None
  /\ facade_calls < MaxCallsFacade
  /\ factory_scene_id' = Append(factory_scene_id, 0)
  /\ facade_calls' = facade_calls + 1
  /\ UNCHANGED << vars_hub, facade_scenes, facade_objects, proxy, aborted >>

\* Factory::scene on the factory f.
Scene(f) ==
  /\ aborted = None
  /\ facade_calls < MaxCallsFacade
  /\ factory_scene_id' = [factory_scene_id EXCEPT ![f] = @ + 1]
  /\ facade_scenes' = Append(facade_scenes,
       [unique_id |-> factory_scene_id[f] + 1, nodes |-> <<>>, visuals |-> <<>>,
        queue |-> <<>>])
  /\ facade_calls' = facade_calls + 1
  /\ UNCHANGED << vars_hub, facade_objects, proxy, aborted >>

FactoryScene == \E f \in DOMAIN factory_scene_id : Scene(f)

\* Object::attach and VisualObject::attach of object o to scene s, under the
\* group g or under no group (g = 0).  No proxy of the object is alive: it
\* would borrow the object.
Attach(o, s, g) ==
  /\ aborted = None
  /\ proxy = None
  /\ facade_calls < MaxCallsFacade
  /\ facade_calls' = facade_calls + 1
  /\ LET object == facade_objects[o]
         scene == facade_scenes[s]
         made == MakeNode(scene, object.transform,
                          IF g = 0 THEN None ELSE Some(facade_objects[g]))
         node == Len(made.nodes)
         visuals == IF object.kind = "Mesh"
                    THEN FacadeCreate(scene.visuals,
                           [material |-> object.material[1], node |-> node, epoch |-> 0])
                    ELSE scene.visuals
     IN  IF LinksTo(object, scene.unique_id) /= {}
         THEN /\ aborted' = Some("attach")
              /\ UNCHANGED << facade_scenes, facade_objects >>
         ELSE IF made.panic
         THEN /\ aborted' = Some("make_node")
              /\ UNCHANGED << facade_scenes, facade_objects >>
         ELSE /\ aborted' = aborted
              /\ facade_scenes' = [facade_scenes EXCEPT
                                     ![s].nodes = made.nodes, ![s].visuals = visuals]
              /\ facade_objects' = [facade_objects EXCEPT ![o].scenes =
                   Append(@, [id |-> scene.unique_id, tx |-> s, node |-> node,
                              visual |-> IF object.kind = "Mesh"
                                         THEN Some(Len(visuals)) ELSE None])]
  /\ UNCHANGED << vars_hub, factory_scene_id, proxy >>

ObjectAttach ==
  \E o \in DOMAIN facade_objects : \E s \in DOMAIN facade_scenes :
    \E g \in {0} \cup {k \in DOMAIN facade_objects \ {o} :
                         facade_objects[k].kind = "Group"} :
      Attach(o, s, g)

\* Object::transform_mut, VisualObject::transform_mut and
\* VisualObject::material_mut: the proxy borrows the field and the links.
ProxyMut(o, key) ==
  /\ aborted = None
  /\ proxy = None
  /\ facade_calls < MaxCallsFacade
  /\ facade_calls' = facade_calls + 1
  /\ proxy' = Some([object |-> o, key |-> key])
  /\ UNCHANGED << vars_hub, factory_scene_id, facade_scenes, facade_objects, aborted >>

TransformMut == \E o \in DOMAIN facade_objects : ProxyMut(o, "transform")

MaterialMut ==
  \E o \in DOMAIN facade_objects :
    facade_objects[o].kind = "Mesh" /\ ProxyMut(o, "material")

\* DerefMut of the proxy: the application assigns the borrowed field.
ProxyWrite ==
  /\ aborted = None
  /\ proxy /= None
  /\ LET o == proxy[1].object
     IN  IF proxy[1].key = "transform"
         THEN \E t \in TransformInputs \ {facade_objects[o].transform} :
                facade_objects' = [facade_objects EXCEPT ![o].transform = t]
         ELSE \E mat \in MaterialInputs \ {facade_objects[o].material[1]} :
                facade_objects' = [facade_objects EXCEPT ![o].material = Some(mat)]
  /\ UNCHANGED << vars_hub, factory_scene_id, facade_scenes, proxy, aborted, facade_calls >>

\* The message a proxy sends over one link.
ProxyMessage(scs, link, key, value) ==
  IF key = "transform"
  THEN [type |-> "SetTransform",
        target |-> Downgrade(scs[link.tx].nodes, link.node), value |-> value]
  ELSE [type |-> "SetMaterial",
        target |-> Downgrade(scs[link.tx].visuals, link.visual[1]), value |-> value]

\* A slip: the message sent over the first link only.
SendToFirstLink(scs, links, key, value) ==
  IF links = <<>> THEN scs
  ELSE [scs EXCEPT ![links[1].tx].queue =
          Append(@, ProxyMessage(scs, links[1], key, value))]

\* `for link in self.links`: one message per link, on the link's sender.
RECURSIVE SendToLinks(_, _, _, _)
SendToLinks(scs, links, key, value) ==
  IF links = <<>> THEN scs
  ELSE SendToLinks([scs EXCEPT ![Head(links).tx].queue =
                      Append(@, ProxyMessage(scs, Head(links), key, value))],
                   Tail(links), key, value)

\* Drop of the proxy.
ProxyDrop ==
  /\ aborted = None
  /\ proxy /= None
  /\ LET object == facade_objects[proxy[1].object]
         value == IF proxy[1].key = "transform" THEN object.transform
                  ELSE object.material[1]
     IN  facade_scenes' = SendToLinks(facade_scenes, object.scenes, proxy[1].key, value)
  /\ proxy' = None
  /\ UNCHANGED << vars_hub, factory_scene_id, facade_objects, aborted, facade_calls >>

\* One arm of the match of Scene::process_messages.
FacadeApply(scene, message) ==
  IF message.type = "SetTransform"
  THEN IF FacadeUpgrades(scene.nodes, message.target)
       THEN [scene EXCEPT !.nodes[message.target.index].local = message.value]
       ELSE scene
  ELSE IF FacadeUpgrades(scene.visuals, message.target)
       THEN [scene EXCEPT !.visuals[message.target.index].material = message.value]
       ELSE scene

\* Scene::process_messages: the channel drained in order.
RECURSIVE FacadeProcessMessages(_)
FacadeProcessMessages(scene) ==
  IF scene.queue = <<>> THEN scene
  ELSE FacadeProcessMessages(
         [FacadeApply(scene, Head(scene.queue)) EXCEPT !.queue = Tail(scene.queue)])

\* CursorItem::look_back: the item of a pointer into the slots before the
\* cursor.
LookBack(nodes, i, parent) == IF parent < i THEN Some(nodes[parent]) ELSE None

\* The body of the loop of Scene::compute_transforms; unwrap panics on None.
ComputeItem(nodes, i) ==
  IF nodes[i].parent = None
  THEN [panic |-> FALSE, world |-> nodes[i].local]
  ELSE LET parent == LookBack(nodes, i, nodes[i].parent[1])
       IN  IF parent = None THEN [panic |-> TRUE, world |-> nodes[i].world]
           ELSE [panic |-> FALSE, world |-> Concat(parent[1].world, nodes[i].local)]

\* Scene::compute_transforms from slot i on.
RECURSIVE ComputeTransforms(_, _)
ComputeTransforms(nodes, i) ==
  IF i > Len(nodes) THEN [panic |-> FALSE, nodes |-> nodes]
  ELSE LET c == ComputeItem(nodes, i)
       IN  IF c.panic THEN [panic |-> TRUE, nodes |-> nodes]
           ELSE ComputeTransforms([nodes EXCEPT ![i].world = c.world], i + 1)

\* Scene::update of scene s.
Update(s) ==
  /\ aborted = None
  /\ LET processed == FacadeProcessMessages(facade_scenes[s])
         computed == ComputeTransforms(processed.nodes, 1)
     IN  /\ facade_scenes' = [facade_scenes EXCEPT
                                ![s] = [processed EXCEPT !.nodes = computed.nodes]]
         /\ aborted' = IF computed.panic THEN Some("compute_transforms") ELSE aborted
  /\ UNCHANGED << vars_hub, factory_scene_id, facade_objects, proxy, facade_calls >>

SceneUpdate == \E s \in DOMAIN facade_scenes : Update(s)

\* The application has opened a window and made two groups and a mesh with
\* Factory::group and Factory::mesh; it opens windows, creates scenes,
\* attaches the objects, changes them through proxies and updates the scenes.
InitFacade ==
  /\ HubNew
  /\ factory_scene_id = << 0 >>
  /\ facade_scenes = <<>>
  /\ facade_objects = << FacadeGroup, FacadeGroup, FacadeMesh(LineBasic) >>
  /\ proxy = None
  /\ aborted = None
  /\ facade_calls = 0

NextFacade ==
  \/ RendererNew
  \/ FactoryScene
  \/ ObjectAttach
  \/ TransformMut
  \/ MaterialMut
  \/ ProxyWrite
  \/ ProxyDrop
  \/ SceneUpdate

SpecFacade == InitFacade /\ [][NextFacade]_vars

Spec == SpecQueue

\* ------------------------------------------------- the channel, the store
\* A step of the drain that receives a message.
RecvStep == pc = "loop" /\ Len(queue') < Len(queue)

\* The node a message was sent to is destroyed: its slot was freed, and is
\* free still or holds a node created later.
Destroyed(msg) ==
  \/ meta[msg.target.index] = 0
  \/ born[msg.target.index].n /= msg.node

\* C1: a message whose target node is destroyed (its slot free, or reused by a
\* newer node) changes no node and does not panic the drain; a message of any
\* operation but SetWeights, whose fan-out is C8's, writes no node but the one
\* its weak pointer was created for.
C1_DeadTargetChangesNoNode ==
  [][RecvStep =>
       LET msg == Head(queue)
       IN  /\ Destroyed(msg) => (data' = data /\ pc' /= "panicked")
           /\ msg.op.type /= "SetWeights" =>
                \A i \in DOMAIN data :
                  data'[i] /= data[i] =>
                    (i = msg.target.index /\ born[i].n = msg.node)]_vars

\* C1 witness: the drain has just dropped a message whose slot now holds a
\* live node created after the message's target.
C1_Witness ==
  /\ pc = "loop"
  /\ log /= <<>>
  /\ LET e == log[Len(log)]
     IN  /\ ~e.alive
         /\ meta[e.msg.target.index] > 0
         /\ born[e.msg.target.index].n > e.msg.node

\* The entries of the current drain that wrote `visible` of the node in slot i.
VisibleWrites(i) ==
  {k \in DOMAIN log : /\ log[k].alive
                      /\ log[k].msg.target.index = i
                      /\ log[k].msg.op.type = "SetVisible"}

\* C2: the drain receives the messages of one producer (one object handle) in
\* the order they were sent, and of the writes of `visible` it applied to a
\* node the last sent is the value the node holds.
C2_FifoPerProducer ==
  /\ \A j, k \in DOMAIN log :
       (j < k /\ log[j].msg.target = log[k].msg.target) =>
         log[j].msg.seq < log[k].msg.seq
  /\ \A i \in DOMAIN data :
       \A k \in VisibleWrites(i) :
         (\A j \in VisibleWrites(i) : log[j].msg.seq <= log[k].msg.seq) =>
           data[i].visible = log[k].msg.op.visible

\* C2 witness: one drain applied two writes of `visible` with different values
\* to one node.
C2_Witness ==
  \E i \in DOMAIN data :
    \E j, k \in VisibleWrites(i) :
      log[j].msg.op.visible /= log[k].msg.op.visible

\* C3: when the loop of the drain has ended, every message that was queued when
\* the drain began has left the queue and was received exactly once by it (and
\* so applied once if its target was alive, dropped if not); no message is
\* received twice, nor received and still queued.
C3_ConsumedOnce ==
  /\ pc = "sync" =>
       \A s \in at_begin :
         /\ \A k \in DOMAIN queue : queue[k].seq /= s
         /\ Cardinality({k \in DOMAIN log : log[k].msg.seq = s}) = 1
  /\ \A j, k \in DOMAIN log : j /= k => log[j].msg.seq /= log[k].msg.seq
  /\ \A j \in DOMAIN log : \A k \in DOMAIN queue : log[j].msg.seq /= queue[k].seq

\* C3 witness: a drain that began with two messages queued, one for a live
\* node and one for a destroyed node, has ended its loop.
C3_Witness ==
  /\ pc = "sync"
  /\ Cardinality(at_begin) >= 2
  /\ \E j, k \in DOMAIN log :
       /\ log[j].msg.seq \in at_begin /\ log[j].alive
       /\ log[k].msg.seq \in at_begin /\ ~log[k].alive

\* ------------------------------------------------- the propagation pass
\* The nodes a pass visits.
Nodes == {i \in 1..Len(data) : Visited(i)}

\* The slot of the parent of node i, which has one.
ParentOf(i) == data[i].parent[1].index

\* The parent of node i is stored before it, where the cursor's left view
\* finds it updated.
Resolved(i) == data[i].parent /= None /\ ParentOf(i) < i

\* The parent of node i is a node created after it.
ParentLater(i) ==
  /\ data[i].parent /= None
  /\ ParentOf(i) > i
  /\ born[ParentOf(i)].n > born[i].n

\* The nodes on the parent chain of node i from its parent up, seen excluded.
RECURSIVE ChainFrom(_, _)
ChainFrom(i, seen) ==
  IF data[i].parent = None \/ ParentOf(i) \in seen THEN seen
  ELSE ChainFrom(ParentOf(i), seen \cup {ParentOf(i)})

Ancestors(i) == ChainFrom(i, {})

\* The end of the parent chain of node i as the pass follows it: through
\* parents stored before their child.
RECURSIVE Root(_)
Root(i) == IF Resolved(i) THEN Root(ParentOf(i)) ELSE i

\* The nearest Scene marker above node i, if any.
RECURSIVE SceneAbove(_, _)
SceneAbove(i, seen) ==
  IF data[i].parent = None \/ ParentOf(i) \in seen THEN None
  ELSE IF data[ParentOf(i)].sub_node.kind = "Scene" THEN Some(ParentOf(i))
  ELSE SceneAbove(ParentOf(i), seen \cup {ParentOf(i)})

\* C4 as stated: after a pass, a node C whose parent P has no parent has
\* world_transform = P.transform * C.transform, and the leaf of a chain of
\* three has the composition of the three local transforms, root first.
C4_Orig_ComposedForEveryChild ==
  fresh > 0 =>
    \A c \in Nodes :
      data[c].parent /= None =>
        LET p == ParentOf(c)
        IN  /\ data[p].parent = None =>
                 data[c].world_transform =
                   Concat(data[p].transform, data[c].transform)
            /\ (data[p].parent /= None /\ data[ParentOf(p)].parent = None) =>
                 data[c].world_transform =
                   Concat(Concat(data[ParentOf(p)].transform, data[p].transform),
                          data[c].transform)

\* C4: after a pass, a visible node C whose parent P is stored before it and
\* has no parent and is visible has world_transform = P.transform *
\* C.transform (the parent's on the left), and the visible leaf of a chain of
\* three visible nodes, each parent stored before its child, has the
\* composition of the three local transforms, root first.
C4_ComposedParentThenChild ==
  fresh > 0 =>
    \A c \in Nodes :
      (data[c].visible /\ Resolved(c)) =>
        LET p == ParentOf(c)
        IN  /\ (data[p].visible /\ data[p].parent = None) =>
                 data[c].world_transform =
                   Concat(data[p].transform, data[c].transform)
            /\ (/\ data[p].visible
                /\ Resolved(p)
                /\ data[ParentOf(p)].visible
                /\ data[ParentOf(p)].parent = None) =>
                 data[c].world_transform =
                   Concat(Concat(data[ParentOf(p)].transform, data[p].transform),
                          data[c].transform)

\* A pass has run on a chain of three visible nodes, a translation under a
\* scale under a translation, where the order of the composition shows.
C4_Witness ==
  /\ fresh > 0
  /\ \E c \in Nodes :
       /\ data[c].visible /\ Resolved(c)
       /\ data[ParentOf(c)].visible /\ Resolved(ParentOf(c))
       /\ data[ParentOf(ParentOf(c))].visible
       /\ data[ParentOf(ParentOf(c))].parent = None
       /\ data[c].transform = Translate
       /\ data[ParentOf(c)].transform = Scale2
       /\ data[ParentOf(ParentOf(c))].transform = Translate
       /\ data[c].world_transform =
            [One EXCEPT !.scale = 2, !.disp = << 3, 0, 0 >>]

\* C5: after a pass, every node with an invisible node among its ancestors
\* (its parent, the parent's parent, ...) has world_visible = false,
\* whatever its own visible flag.
C5_InvisibleAncestorHides ==
  fresh > 0 =>
    \A i \in Nodes :
      (\E a \in Ancestors(i) : ~data[a].visible) => ~data[i].world_visible

\* A pass has run on a visible node under a visible parent under an
\* invisible grandparent, each stored before its child.
C5_Witness ==
  /\ fresh > 0
  /\ \E i \in Nodes :
       /\ data[i].visible /\ Resolved(i)
       /\ data[ParentOf(i)].visible /\ Resolved(ParentOf(i))
       /\ ~data[ParentOf(ParentOf(i))].visible
       /\ ~data[i].world_visible

\* C6 as stated: after a pass, every node below a Scene marker has that
\* marker's uid as scene_id, every node below no Scene marker has None, and
\* a Scene marker below none has its own uid.
C6_Orig_SceneOfEveryDescendant ==
  fresh > 0 =>
    \A i \in Nodes :
      LET above == SceneAbove(i, {})
      IN  /\ above /= None /\ data[i].sub_node.kind /= "Scene" =>
                data[i].scene_id = born[above[1]].uid
          /\ above = None =>
                data[i].scene_id = born[i].uid

\* C6: after a pass, every node with world_visible = true has as scene_id
\* that of the root of its parent chain: the root's uid if the root is a
\* Scene marker, None otherwise.
C6_SceneOfVisibleFromRoot ==
  fresh > 0 =>
    \A i \in Nodes :
      data[i].world_visible => data[i].scene_id = born[Root(i)].uid

\* A pass has run on a world-visible node two levels below a Scene marker,
\* which has the marker's uid.
C6_Witness ==
  /\ fresh > 0
  /\ \E i \in Nodes :
       /\ data[i].world_visible
       /\ Resolved(i) /\ Resolved(ParentOf(i))
       /\ Root(i) = ParentOf(ParentOf(i))
       /\ data[i].sub_node.kind /= "Scene"
       /\ data[Root(i)].sub_node.kind = "Scene"
       /\ data[i].scene_id = born[Root(i)].uid
       /\ data[i].scene_id /= None

\* C7: a pass that follows a pass, no message processed and no node created
\* in between, changes no field of any node.
C7_SecondPassChangesNothing ==
  [][(fresh > 0 /\ UpdateGraph) => data' = data]_vars

\* Two passes in a row have run on a graph where the first one wrote a world
\* transform that is not the local one.
C7_Witness ==
  /\ fresh = 2
  /\ \E i \in Nodes :
       /\ data[i].world_visible
       /\ data[i].parent /= None
       /\ data[i].world_transform /= data[i].transform

\* C9 as stated: a pass leaves a node whose parent was created after it
\* with world_visible = false, its own scene_id and world_transform = its
\* local transform, logs the error for it, and goes on to the other nodes.
C9_Orig_LaterParentEveryChild ==
  [][UpdateGraph =>
       \A i \in Nodes :
         ParentLater(i) =>
           /\ i \in logged'
           /\ ~data'[i].world_visible
           /\ data'[i].scene_id = data[i].scene_id
           /\ data'[i].world_transform = data[i].transform
           /\ \A j \in Nodes :
                (data[j].visible /\ data[j].parent = None) =>
                   data'[j].world_visible]_vars

\* C9: a pass leaves a visible node whose parent was created after it with
\* world_visible = false, its own scene_id and world_transform = its local
\* transform, logs the error for it, and goes on to the other nodes: every
\* visible node with no parent, stored before it or after, is world-visible.
C9_LaterParentVisibleChild ==
  [][UpdateGraph =>
       \A i \in Nodes :
         (data[i].visible /\ ParentLater(i)) =>
           /\ i \in logged'
           /\ ~data'[i].world_visible
           /\ data'[i].scene_id = data[i].scene_id
           /\ data'[i].world_transform = data[i].transform
           /\ \A j \in Nodes :
                (data[j].visible /\ data[j].parent = None) =>
                   data'[j].world_visible]_vars

\* A pass has run on a visible Scene marker whose parent, a visible node
\* with no parent, was created after it: the error is logged and the parent,
\* visited next, is world-visible.
C9_Witness ==
  /\ fresh > 0
  /\ \E i \in Nodes :
       /\ data[i].visible /\ ParentLater(i)
       /\ i \in logged
       /\ ~data[i].world_visible
       /\ data[i].scene_id /= None
       /\ data[i].world_transform = Translate
       /\ data[ParentOf(i)].parent = None
       /\ data[ParentOf(i)].world_visible

\* ------------------------------------------------------- morph weights
\* The weights of the morph slots of node i.
WeightsOf(d, i) ==
  [k \in 1..MAX_TARGETS |-> d[i].sub_node.gpu_data.displacement_contributions[k].weight]

\* The visited visual nodes whose parent is the node of pointer ptr.
VisualChildren(ptr) ==
  {i \in Nodes : data[i].sub_node.kind = "Visual" /\ data[i].parent = Some(ptr)}

\* C8: a SetWeights message received for a live node K with no Visual
\* payload sets the weights of every morph slot of every visual node whose
\* parent is K to the given weights, and changes nothing else; received for
\* a live visual node V it sets the weights of V and changes no other node,
\* V's own visual children included.
C8_SetWeightsDualTargeting ==
  [][(RecvStep /\ queue[1].op.type = "SetWeights" /\ Upgrades(queue[1].target)) =>
       LET ptr == queue[1].target
           w == queue[1].op.weights
           written == IF data[ptr.index].sub_node.kind = "Visual"
                      THEN {ptr.index}
                      ELSE VisualChildren(ptr)
       IN  /\ \A i \in written :
                /\ WeightsOf(data', i) = w
                /\ data' [i] = [data[i] EXCEPT
                     !.sub_node.gpu_data.displacement_contributions =
                        [k \in 1..MAX_TARGETS |-> [@[k] EXCEPT !.weight = w[k]]]]
           /\ \A i \in DOMAIN data \ written : data'[i] = data[i]]_vars

\* Both cases have happened: a node with no visual payload and its two visual
\* children, which have the same weights, not the initial ones; and a visual
\* node with weights that its visual child has not.
C8_Witness ==
  /\ log /= <<>>
  /\ log[Len(log)].alive
  /\ log[Len(log)].msg.op.type = "SetWeights"
  /\ \E k \in Nodes :
       /\ data[k].sub_node.kind /= "Visual"
       /\ \E a, b \in VisualChildren([index |-> k, epoch |-> epoch[k]]) :
            /\ a /= b
            /\ WeightsOf(data, a) = WeightsOf(data, b)
            /\ WeightsOf(data, a) = [i \in 1..MAX_TARGETS |-> i]
  /\ \E v \in Nodes :
       /\ data[v].sub_node.kind = "Visual"
       /\ \E c \in VisualChildren([index |-> v, epoch |-> epoch[v]]) :
            /\ WeightsOf(data, v) = [i \in 1..MAX_TARGETS |-> 1]
            /\ WeightsOf(data, c) /= WeightsOf(data, v)

\* ------------------------------------------------------------ end to end
\* The slot of the n-th node created.
SlotOf(n) == CHOOSE i \in 1..Len(data) : born[i].n = n

\* C10: after scene S, then group G with SetParent(G, S), then mesh M with
\* SetParent(M, G) and a translation, an update cycle (process_messages, then
\* update_graph) leaves M.world_visible = true, M.scene_id = the uid of S and
\* M.world_transform = S.transform * G.transform * M.transform.
C10_EndToEnd ==
  (Step = 8 /\ queue = <<>> /\ pc = "idle" /\ fresh > 0) =>
     LET S == data[SlotOf(3)]
         G == data[SlotOf(4)]
         M == data[SlotOf(5)]
     IN  /\ M.transform = Translate
         /\ M.world_visible
         /\ M.scene_id = born[SlotOf(3)].uid
         /\ M.world_transform = Concat(Concat(S.transform, G.transform), M.transform)

\* ---------------------------------------------------------- the dispatcher
\* A step of the drain that receives a message of the given type for a node
\* that is alive.
RecvLive(type) ==
  RecvStep /\ queue[1].op.type = type /\ Upgrades(queue[1].target)

\* C11: a SetTransform message received for a live node replaces the
\* position, the rotation and the scale of the node's local transform each by
\* the value given if the component is Some, leaves each component given as
\* None as it was, and changes no other field of any node.
C11_SetTransformWritesGivenComponents ==
  [][RecvLive("SetTransform") =>
       LET i == queue[1].target.index
           op == queue[1].op
           old == data[i].transform
           new == data'[i].transform
       IN  /\ new.disp = IF op.pos /= None
                         THEN << op.pos[1].x, op.pos[1].y, op.pos[1].z >>
                         ELSE old.disp
           /\ new.rot = IF op.rot /= None
                        THEN << op.rot[1].s, op.rot[1].v.x, op.rot[1].v.y, op.rot[1].v.z >>
                        ELSE old.rot
           /\ new.scale = IF op.scale /= None THEN op.scale[1] ELSE old.scale
           /\ data' = [data EXCEPT ![i].transform = new]]_vars

\* A SetTransform message with a position and no scale has been applied to a
\* node whose scale and rotation were set before: the position is the new
\* one, the scale and the rotation are the ones set before.
C11_Witness ==
  /\ log /= <<>>
  /\ LET last == log[Len(log)]
         t == data[last.msg.target.index].transform
     IN  /\ last.alive
         /\ last.msg.op.type = "SetTransform"
         /\ last.msg.op.pos = Some([x |-> 0, y |-> 2, z |-> 0])
         /\ last.msg.op.rot = None
         /\ last.msg.op.scale = None
         /\ t.disp = << 0, 2, 0 >>
         /\ t.rot = << 0, 0, 0, 1 >>
         /\ t.scale = 3

\* The payload variant each payload-specific operation is for.
PayloadOf ==
  [SetAudio |-> "Audio", SetText |-> "UiText", SetMaterial |-> "Visual",
   SetSkeleton |-> "Visual", SetShadow |-> "Light", SetTargets |-> "Visual"]

\* C12: a SetAudio, SetText, SetMaterial, SetSkeleton, SetShadow or SetTargets
\* message received for a live node whose payload is not of the variant the
\* operation is for changes no node and frees no slot, raises no error, and
\* the drain goes on to the next message.
C12_PayloadMismatchIsNoOp ==
  [][(/\ RecvStep
      /\ Upgrades(queue[1].target)
      /\ queue[1].op.type \in DOMAIN PayloadOf
      /\ data[queue[1].target.index].sub_node.kind /= PayloadOf[queue[1].op.type]) =>
       /\ data' = data
       /\ << meta, epoch, free_list >>' = << meta, epoch, free_list >>
       /\ pc' = "loop"]_vars

\* A material was sent to a node that is not visual and the drain went on: the
\* message after it was applied, to a node that has no material still.
C12_Witness ==
  /\ Len(log) >= 2
  /\ log[1].alive
  /\ log[1].msg.op.type = "SetMaterial"
  /\ data[log[1].msg.target.index].sub_node.kind = "Light"
  /\ log[2].alive
  /\ log[2].msg.op.type = "SetShadow"
  /\ log[2].msg.target = log[1].msg.target
  /\ data[log[2].msg.target.index].sub_node.shadow /= None
  /\ pc = "loop"

\* C13: the drain aborts exactly when it applies SetTexelRange to a visual
\* node whose material is not a sprite; no other step aborts it, SetTexelRange
\* received for a node that is not visual included.
C13_OnlyTexelRangeOnOtherMaterialAborts ==
  [][(pc' = "panicked") <=>
       (/\ RecvLive("SetTexelRange")
        /\ data[queue[1].target.index].sub_node.kind = "Visual"
        /\ data[queue[1].target.index].sub_node.material.kind /= "Sprite")]_vars

\* The drain has tolerated SetTexelRange for a node that is not visual and
\* aborted on the message after it, SetTexelRange for a visual node with a
\* basic material.
C13_Witness ==
  /\ pc = "panicked"
  /\ Len(log) = 2
  /\ log[1].alive /\ log[2].alive
  /\ log[1].msg.op.type = "SetTexelRange"
  /\ log[2].msg.op.type = "SetTexelRange"
  /\ data[log[1].msg.target.index].sub_node.kind = "Skeleton"
  /\ data[log[2].msg.target.index].sub_node.kind = "Visual"
  /\ data[log[2].msg.target.index].sub_node.material.kind = "Basic"

\* C20: no step of the drain and no propagation pass changes the payload
\* variant (the kind of sub_node) of a node: as long as a slot holds the same
\* live node, the kind is the one the node was spawned with.
C20_PayloadKindFixed ==
  [][\A i \in DOMAIN data :
       (Visited(i) /\ born'[i].n = born[i].n) =>
          data'[i].sub_node.kind = data[i].sub_node.kind]_vars

\* Two operations have been applied to a visual node and a pass has run: the
\* fields inside the payload have changed, the node is visual still.
C20_Witness ==
  /\ fresh > 0
  /\ sent = 2
  /\ queue = <<>>
  /\ data[1].world_visible
  /\ data[1].sub_node.kind = "Visual"
  /\ data[1].sub_node.skeleton /= None
  /\ data[1].sub_node.material.texel_range /= None

\* C14: a call of process_messages that returns has run sync_pending exactly
\* once, as its last step and with the queue found empty before it: the call
\* returns only from the commit, the commit applies every pending reference
\* count, and no earlier step of the call touches the committed counts,
\* whatever the messages were (dead targets and SetWeights included).
C14_CommitOncePerCall ==
  [][/\ (pc /= "idle" /\ pc' = "idle") =>
          /\ pc = "sync"
          /\ meta' = SyncPending.meta
          /\ epoch' = SyncPending.epoch
          /\ free_list' = SyncPending.free_list
          /\ add_ref' = <<>>
          /\ sub_ref' = <<>>
     /\ (pc /= "idle" /\ pc' /= "idle") =>
          << meta, epoch, free_list >>' = << meta, epoch, free_list >>
     /\ (pc /= "sync" /\ pc' = "sync") => (pc = "loop" /\ queue = <<>>)]_vars

\* A call has returned after draining messages, and its commit destroyed a node.
C14_Witness ==
  /\ pc = "idle"
  /\ sent > 0
  /\ queue = <<>>
  /\ free_list /= <<>>
  /\ add_ref = <<>>
  /\ sub_ref = <<>>

\* The fields of node i that only update_graph writes.
Derived(d, i) == << d[i].world_visible, d[i].world_transform, d[i].scene_id >>

C19_ParentBeforeChildResolves ==
  [][UpdateGraph =>
       ((\A i \in Nodes :
           data[i].parent /= None => born[ParentOf(i)].n < born[i].n)
         => logged' = {})]_vars

\* C17: a Scene marker keeps the scene_id generated at its creation through
\* every pass, whatever its parent, and a node attached directly to it has
\* that id once the pass has made it world-visible.
C17_SceneKeepsOwnId ==
  fresh > 0 =>
    \A i \in Nodes :
      data[i].sub_node.kind = "Scene" =>
        /\ data[i].scene_id = born[i].uid
        /\ \A j \in Nodes :
             (Resolved(j) /\ ParentOf(j) = i /\ data[j].world_visible) =>
                data[j].scene_id = born[i].uid

\* C16: the scene ids handed out by spawn_scene, on this hub or another and
\* in whatever interleaving of the calls, strictly increase in the order the
\* calls took them, so no two calls received the same id; every Scene node of
\* this hub was created with one of them, and no two nodes with the same.
C16_SceneIdsUniqueIncreasing ==
  /\ \A k \in 1..(Len(given) - 1) : given[k] < given[k + 1]
  /\ \A i \in Nodes :
       /\ born[i].uid /= None
       /\ \E k \in 1..Len(given) : given[k] = born[i].uid[1]
       /\ born[i].staged => data[i].scene_id = born[i].uid
       /\ \A j \in Nodes : born[j].uid = born[i].uid => j = i

\* Two scenes of this hub are live, another hub's scene was created between
\* them, and the later one lies in a reused slot before the earlier one.
C16_Witness ==
  \E i \in Nodes : \E j \in Nodes :
    /\ i < j
    /\ born[i].uid[1] > born[j].uid[1] + 1

\* The application holds a handle of the node in slot i.
Handled(i) == \E h \in held : h.index = i

\* A stored NodeInternal, of a live slot or of a freed slot not yet reused,
\* names the node in slot i as its parent or its skeleton.
Linked(i) ==
  \E k \in DOMAIN data : \E n \in DOMAIN OwnedPointers(data[k]) :
    OwnedPointers(data[k])[n] = i

\* A queued message carries the node in slot i in its operation.
Carried(i) ==
  \E k \in DOMAIN queue : \E n \in DOMAIN OpPointers(queue[k].op) :
    OpPointers(queue[k].op)[n] = i

\* sync_pending runs.
SyncStep == pc = "sync" /\ pc' = "idle"

\* C18 as stated: a node with no handle and no parent link left is destroyed
\* by the next sync_pending, whatever the queued messages refer to.
C18_Orig_MessagesHoldOnlyWeak ==
  [][SyncStep =>
       \A i \in DOMAIN meta :
         (~Handled(i) /\ ~Linked(i)) => meta'[i] = 0]_vars

\* C18, amended: a queued message holds its target weakly and the node its
\* operation carries strongly.  sync_pending destroys a node with no handle
\* and no link left unless a queued operation carries it, queued messages
\* that target it notwithstanding, and never destroys a node that a queued
\* operation carries.
C18_TargetWeakOperandStrong ==
  [][SyncStep =>
       \A i \in DOMAIN meta :
         /\ (~Handled(i) /\ ~Linked(i) /\ ~Carried(i)) => meta'[i] = 0
         /\ Carried(i) => meta'[i] > 0]_vars

\* After a sync_pending a queued SetParent has a destroyed target, and the
\* parent it carries is alive with no handle and no link left.
C18_Witness ==
  /\ pc = "idle"
  /\ \E k \in DOMAIN queue :
       /\ queue[k].op.type = "SetParent"
       /\ ~Upgrades(queue[k].target)
       /\ LET i == queue[k].op.parent.index
          IN  meta[i] > 0 /\ ~Handled(i) /\ ~Linked(i)

\* The fields of node i that the application sets, at creation or by message.
Local(d, i) == << d[i].parent, d[i].visible, d[i].transform, d[i].sub_node >>

\* C21: the derived fields world_transform, world_visible and scene_id of a
\* node change in no step but a pass of update_graph, whatever operation
\* process_messages applies, and the pass computes them without touching the
\* local fields: an invisible node is not world-visible, a visible node with
\* no parent is world-visible with its local transform.
C21_DerivedOnlyByPass ==
  [][/\ ~UpdateGraph =>
          \A i \in DOMAIN data :
            born'[i].n = born[i].n => Derived(data', i) = Derived(data, i)
     /\ UpdateGraph =>
          \A i \in Nodes :
            /\ Local(data', i) = Local(data, i)
            /\ ~data[i].visible => ~data'[i].world_visible
            /\ (data[i].visible /\ data[i].parent = None) =>
                  /\ data'[i].world_visible
                  /\ data'[i].world_transform = data[i].transform]_vars

\* A message has made a node invisible and changed its transform since the
\* last pass: the node still has the derived values of that pass.
C21_Witness ==
  /\ fresh = 0
  /\ pc = "idle"
  /\ queue = <<>>
  /\ \E i \in Nodes :
       /\ ~data[i].visible
       /\ data[i].world_visible
       /\ data[i].transform /= data[i].world_transform

\* C22: a pass sets world_visible = false on a node whose visible flag is
\* false and leaves its world_transform and its scene_id as they were,
\* whatever its parent and its local transform.
C22_InvisibleKeepsDerived ==
  [][UpdateGraph =>
       \A i \in Nodes :
         ~data[i].visible =>
           /\ ~data'[i].world_visible
           /\ data'[i].world_transform = data[i].world_transform
           /\ data'[i].scene_id = data[i].scene_id]_vars

\* A pass has run on an invisible node below a world-visible parent: its
\* world transform is not the composition with the parent's.
C22_Witness ==
  /\ fresh > 0
  /\ \E i \in Nodes :
       /\ ~data[i].visible
       /\ ~data[i].world_visible
       /\ Resolved(i)
       /\ data[ParentOf(i)].world_visible
       /\ data[i].world_transform /=
            Concat(data[ParentOf(i)].world_transform, data[i].transform)

\* Node i lies on a cycle of parent links (a node that is its own parent
\* included).
OnCycle(i) == i \in Ancestors(i)

\* C23: update_graph completes on every parent relation, cycles and nodes
\* that are their own parent included: the cursor's loop has a result over
\* the same slots in every state between the owning thread's calls, and
\* after a pass every visible node with a
\* parent in an earlier slot has composed once with that parent's result,
\* errors are logged for live nodes only, and every node on a cycle has
\* world_visible = false.
C23_PassCompletesOnCycles ==
  /\ pc = "idle" =>
       LET s == UpdateFrom([data |-> data, errors |-> {}], 1)
       IN  DOMAIN s.data = DOMAIN data /\ s.errors \subseteq Nodes
  /\ fresh > 0 =>
       /\ \A i \in Nodes :
            /\ (data[i].visible /\ Resolved(i)) =>
                  data[i].world_transform =
                    Concat(data[ParentOf(i)].world_transform, data[i].transform)
            /\ OnCycle(i) => ~data[i].world_visible
       /\ logged \subseteq Nodes

\* A pass has run on a visible node that is its own parent and on two
\* visible nodes that are each other's parent.
C23_Witness ==
  /\ fresh > 0
  /\ \E i \in Nodes : \E j \in Nodes : \E k \in Nodes :
       /\ j /= k
       /\ data[i].visible /\ data[j].visible /\ data[k].visible
       /\ data[i].parent /= None /\ ParentOf(i) = i
       /\ data[j].parent /= None /\ ParentOf(j) = k
       /\ data[k].parent /= None /\ ParentOf(k) = j
       /\ ~data[i].world_visible /\ ~data[j].world_visible /\ ~data[k].world_visible

\* The composition of the local transforms from the root of the chain of
\* node i down to i, through the parents stored before their child.
RECURSIVE WorldOf(_)
WorldOf(i) ==
  IF Resolved(i) THEN Concat(WorldOf(ParentOf(i)), data[i].transform)
  ELSE data[i].transform

\* C24: after a pass a node with world_visible = true is visible, so are all
\* its ancestors, every parent link on its chain is resolved up to a node
\* with no parent, its world_transform is the composition of the local
\* transforms along the chain, root first, and its scene_id is that of the
\* root of the chain.
C24_StaleOnlyWhereInvisible ==
  fresh > 0 =>
    \A i \in Nodes :
      data[i].world_visible =>
        /\ data[i].visible
        /\ \A a \in Ancestors(i) :
             data[a].visible /\ (data[a].parent = None \/ Resolved(a))
        /\ data[i].parent = None \/ Resolved(i)
        /\ data[Root(i)].parent = None
        /\ data[i].world_transform = WorldOf(i)
        /\ data[i].scene_id = data[Root(i)].scene_id

\* A pass has run on a world-visible node two levels below its root: the
\* root's local transform is part of the node's world transform.
C24_Witness ==
  /\ fresh > 0
  /\ \E i \in Nodes :
       /\ data[i].world_visible
       /\ Resolved(i) /\ Resolved(ParentOf(i))
       /\ data[ParentOf(ParentOf(i))].parent = None
       /\ data[i].world_transform /=
            Concat(data[ParentOf(i)].transform, data[i].transform)

\* ------------------------------------------------- the library-root facade
\* The value of the field a proxy of the given key borrows.
FieldOf(object, key) ==
  IF key = "transform" THEN object.transform ELSE object.material[1]

\* The value the scene of a link holds for the field: the local transform of
\* the linked node, the material of the linked visual.
LinkedValue(link, key) ==
  IF key = "transform" THEN facade_scenes[link.tx].nodes[link.node].local
  ELSE facade_scenes[link.tx].visuals[link.visual[1]].material

\* The values of the queued messages of the scene of a link that set the
\* field of the linked node or visual, in queue order.
PendingValues(link, key) ==
  LET q == facade_scenes[link.tx].queue
      type == IF key = "transform" THEN "SetTransform" ELSE "SetMaterial"
      index == IF key = "transform" THEN link.node ELSE link.visual[1]
      hits == {k \in DOMAIN q : q[k].type = type /\ q[k].target.index = index}
      RECURSIVE Pick(_)
      Pick(k) == IF k > Len(q) THEN <<>>
                 ELSE IF k \in hits THEN << q[k].value >> \o Pick(k + 1)
                 ELSE Pick(k + 1)
  IN  Pick(1)

\* The keys of the proxies an object can hand out.
KeysOf(object) == IF object.kind = "Mesh" THEN {"transform", "material"} ELSE {"transform"}

\* Every field no proxy borrows has reached every scene of its object: the
\* scene holds the object's value, or the last queued message carries it.
LinksCurrent ==
  \A o \in DOMAIN facade_objects : \A key \in KeysOf(facade_objects[o]) :
    (proxy = None \/ proxy[1] /= [object |-> o, key |-> key]) =>
      \A k \in DOMAIN facade_objects[o].scenes :
        LET link == facade_objects[o].scenes[k]
            pending == PendingValues(link, key)
        IN  IF pending = <<>>
            THEN LinkedValue(link, key) = FieldOf(facade_objects[o], key)
            ELSE pending[Len(pending)] = FieldOf(facade_objects[o], key)

\* C25: a change made through a proxy reaches every scene of the object.
\* The drop of the proxy adds one message to the channel of each linked
\* scene and none to another; Scene::update empties the channel of its scene
\* and writes only what a message with a live target sets; and after every
\* step each linked scene holds the object's value of a field no proxy
\* borrows, or has it as the last message queued for it.
C25_ProxyReachesEveryScene ==
  [][/\ ProxyDrop =>
          \A s \in DOMAIN facade_scenes :
            Len(facade_scenes'[s].queue) =
              Len(facade_scenes[s].queue) +
              Cardinality({k \in DOMAIN facade_objects[proxy[1].object].scenes :
                             facade_objects[proxy[1].object].scenes[k].tx = s})
     /\ \A s \in DOMAIN facade_scenes :
          Update(s) =>
            /\ facade_scenes'[s].queue = <<>>
            /\ \A i \in DOMAIN facade_scenes[s].nodes :
                 (\A k \in DOMAIN facade_scenes[s].queue :
                    LET message == facade_scenes[s].queue[k]
                    IN  ~(/\ message.type = "SetTransform"
                          /\ message.target.index = i
                          /\ FacadeUpgrades(facade_scenes[s].nodes, message.target)))
                 => facade_scenes'[s].nodes[i].local = facade_scenes[s].nodes[i].local
     /\ LinksCurrent']_vars

\* A mesh attached to two scenes was moved through a proxy and both scenes
\* were updated: both linked nodes have the mesh's transform.
C25_Witness ==
  /\ proxy = None
  /\ \E o \in DOMAIN facade_objects :
       /\ Len(facade_objects[o].scenes) = 2
       /\ facade_objects[o].transform /= One
       /\ \A k \in DOMAIN facade_objects[o].scenes :
            LET link == facade_objects[o].scenes[k]
            IN  /\ facade_scenes[link.tx].queue = <<>>
                /\ facade_scenes[link.tx].nodes[link.node].local =
                     facade_objects[o].transform
                /\ facade_scenes[link.tx].nodes[link.node].world =
                     facade_objects[o].transform

\* C26: Scene::compute_transforms never panics.  In every scene the parent
\* of a node lies in a slot before the node, and Scene::update leaves every
\* node with its local transform as world transform if it has no parent,
\* and with its parent's world transform composed with its local transform
\* otherwise.
C26_ComputeTransformsNeverAborts ==
  [][/\ aborted' /= Some("compute_transforms")
     /\ \A s \in DOMAIN facade_scenes' :
          \A i \in DOMAIN facade_scenes'[s].nodes :
            facade_scenes'[s].nodes[i].parent /= None =>
              facade_scenes'[s].nodes[i].parent[1] < i
     /\ \A s \in DOMAIN facade_scenes :
          Update(s) =>
            \A i \in DOMAIN facade_scenes'[s].nodes :
              LET node == facade_scenes'[s].nodes[i]
              IN  node.world =
                    IF node.parent = None THEN node.local
                    ELSE Concat(facade_scenes'[s].nodes[node.parent[1]].world,
                                node.local)]_vars

====
